---------------------------- MODULE Spec2Model ----------------------------
(***************************************************************************)
(* A model of the operators of the studio-pipeline addons:                 *)
(*   - blender-svn: the svn.log reader and the svn.fetch_log modal         *)
(*     operator (svn_log.py);                                              *)
(*   - blezou: the sequence-editor shot operators (ops.py, props.py).      *)
(* Texts (file contents, lines, subprocess output) are strings and are     *)
(* read character by character as the Python code reads them.             *)
(***************************************************************************)
EXTENDS Integers, Sequences, FiniteSets, TLC

VARIABLES
    svn_log,                  \* scene.svn.log: the list of SVN_log entries
    log_file,                 \* content of .svn/svn.log, or NoFile
    log_update_in_progress,   \* scene.svn.log_update_in_progress
    log_update_cancel_flag,   \* scene.svn.log_update_cancel_flag
    revision_number,          \* prefs.revision_number
    modals,                   \* running svn.fetch_log operators (their self.popen)
    orphans,                  \* whether svn subprocesses run on whose operator has ended
    svn_repo,                 \* what the repository's log entries are (input)
    strips,                   \* the sequence editor's strips (their .blezou data)
    zsequences,               \* the backend's sequences of the active project
    zshots,                   \* the backend's shots of the active project
    render,                   \* scene.render settings
    frame_current,            \* scene.frame_current
    report,                   \* the counts the last step reported, if it did
    external_files,           \* scene.svn.external_files
    external_files_active_index,  \* scene.svn.external_files_active_index
    flt_flags,                \* what filter_items returned last: the flags
    flt_neworder,             \* ... and the order list
    cfg_disk,                 \* the cache config file on disk
    config,                   \* the CacheConfig object (filepath, _json_obj)
    bpy_collections,          \* bpy.data.collections
    bpy_libraries,            \* bpy.data.libraries (with their users_id)
    cm_collections,           \* scene.cm_collections, the cache collections list
    cm_collections_index,     \* scene.cm_collections_index
    cachedir_path,            \* addon_prefs.cachedir_path
    load_post,                \* bpy.app.handlers.load_post
    load_post_handler,        \* draw.py's module list load_post_handler
    registered,               \* whether MV_OT_toggle_header is a registered class
    draw_handlers,            \* the draw handlers of each space type
    next_handle,              \* the number of draw handlers added so far
    toggle_op,                \* the MV_OT_toggle_header instance
    draw_header_toggle,       \* window_manager.media_viewer.draw_header_toggle
    last_op,                  \* the handler that ran last ("" once the user has
                              \* edited the strips or the scene since)
    ret                       \* what it returned, or the exception it raised

vars == <<svn_log, log_file, log_update_in_progress, log_update_cancel_flag,
          revision_number, modals, orphans, svn_repo, strips,
          zsequences, zshots, render, frame_current, report,
          external_files, external_files_active_index, flt_flags, flt_neworder,
          cfg_disk, config, bpy_collections, bpy_libraries, cm_collections,
          cm_collections_index, cachedir_path,
          load_post, load_post_handler, registered, draw_handlers, next_handle,
          toggle_op, draw_header_toggle,
          last_op, ret>>

svnVars == <<svn_log, log_file, log_update_in_progress, log_update_cancel_flag,
             revision_number, modals, orphans, svn_repo>>

shotVars == <<strips, zsequences, zshots, report>>

sceneVars == <<render, frame_current>>

listVars == <<external_files, external_files_active_index, flt_flags, flt_neworder>>

cacheVars == <<cfg_disk, config, bpy_collections, bpy_libraries, cm_collections,
               cm_collections_index, cachedir_path>>

viewerVars == <<load_post, load_post_handler, registered, draw_handlers, next_handle,
                toggle_op, draw_header_toggle>>

\* The state of the other addons, which the svn fetch and the shot operators
\* leave alone.
hostVars == <<listVars, cacheVars, viewerVars>>

----------------------------------------------------------------------------
(* Bounds of the model.                                                    *)

\* Largest revision the repository reaches in the fetch specification.
MaxRev == 11
\* Most log entries of a file read in the reader specification.
MaxEntries == 3
\* Most changed-path lines of one log entry.
MaxPaths == 2
\* Most lines of one commit message.
MaxMsgLines == 2

\* Strips in the sequence editor.
NStrips == 2
\* override_render_settings(self, context, thumbnail_width=256)
THUMBNAIL_WIDTH == 256

\* SVN_fetch_log.MAX_REVS_TO_DOWNLOAD
MAX_REVS_TO_DOWNLOAD == 10

NoFile == [exists |-> FALSE, text |-> ""]

----------------------------------------------------------------------------
(* Strings, as Python slices and splits them.                              *)

Min(a, b) == IF a < b THEN a ELSE b
Max(a, b) == IF a > b THEN a ELSE b

\* s[i] for 0 <= i < len(s), one character
CharAt(s, i) == SubSeq(s, i + 1, i + 1)

\* s[i:] for i >= 0
StrFrom(s, i) == SubSeq(s, i + 1, Len(s))

\* "-" * 72
Dashes == "------------------------------------------------------------------------"

\* F applied to the value of v: a local variable holding v.
With(v, F(_)) == CHOOSE r \in {F(x) : x \in {v}} : TRUE

\* F applied to the values of three local variables.
With3(a, b, c, F(_, _, _)) ==
    CHOOSE r \in {F(x, y, z) : x \in {a}, y \in {b}, z \in {c}} : TRUE

\* The positions (1-based) at which s holds the character c, ascending.
CharPositions(s, c) ==
    SelectSeq([k \in 1..Len(s) |-> k], LAMBDA k : SubSeq(s, k, k) = c)

\* The indices at which the list holds the item x, ascending.
ItemPositions(list, x) ==
    SelectSeq([k \in 1..Len(list) |-> k], LAMBDA k : list[k] = x)

\* s.find(sep): the index (0-based) of the first occurrence of sep in s, -1 if none.
Find(s, sep) ==
    LET at(k) == SubSeq(s, k + 1, k + Len(sep)) = sep
        last == Len(s) - Len(sep)
    IN  IF \E k \in 0..last : at(k)
        THEN CHOOSE k \in 0..last : at(k) /\ \A m \in 0..(k - 1) : ~at(m)
        ELSE -1

\* s.split(sep)
RECURSIVE Split(_, _)
Split(s0, sep) ==
    With(s0, LAMBDA s :
    With(Find(s, sep), LAMBDA k :
        IF k < 0 THEN <<s>>
        ELSE <<SubSeq(s, 1, k)>> \o Split(StrFrom(s, k + Len(sep)), sep)))

\* sep.join(parts)
RECURSIVE Join(_, _)
Join(parts0, sep) ==
    With(parts0, LAMBDA parts :
        IF Len(parts) = 0 THEN ""
        ELSE IF Len(parts) = 1 THEN parts[1]
        ELSE parts[1] \o sep \o Join(Tail(parts), sep))

\* The lines a text file yields when iterated, each without its "\n"
\* (line.replace("\n", "")): a last line without newline is a line too.
FileLines(text0) ==
    With(text0, LAMBDA text :
    With(CharPositions(text, "\n"), LAMBDA pos :
        LET n == Len(pos)
            first(j) == IF j = 1 THEN 1 ELSE pos[j - 1] + 1
            whole == SubSeq([j \in 1..n |-> SubSeq(text, first(j), pos[j] - 1)], 1, n)
            rest == SubSeq(text, first(n + 1), Len(text))
        IN  IF rest = "" THEN whole ELSE Append(whole, rest)))

DigitChars == <<"0", "1", "2", "3", "4", "5", "6", "7", "8", "9">>

IsDigit(c) == \E d \in 1..10 : DigitChars[d] = c

DigitVal(c) == (CHOOSE d \in 1..10 : DigitChars[d] = c) - 1

IsNumber(s0) ==
    With(s0, LAMBDA s : Len(s) > 0 /\ \A i \in 0..(Len(s) - 1) : IsDigit(CharAt(s, i)))

\* int(s) of a string of decimal digits
RECURSIVE ParseInt(_)
ParseInt(s0) ==
    With(s0, LAMBDA s :
        IF Len(s) = 0 THEN 0
        ELSE 10 * ParseInt(SubSeq(s, 1, Len(s) - 1)) + DigitVal(CharAt(s, Len(s) - 1)))

\* str(n).zfill(2)
ZFill2(n) == IF n < 10 THEN "0" \o ToString(n) ELSE ToString(n)

\* seq[start:stop] of a Python list: a negative index counts from the end,
\* and both are clamped to the list.
PyIndex(i, n) == IF i < 0 THEN Max(i + n, 0) ELSE Min(i, n)

PySlice(seq, start, stop) ==
    LET a == PyIndex(start, Len(seq))
        b == PyIndex(stop, Len(seq))
    IN  IF a >= b THEN <<>> ELSE SubSeq(seq, a + 1, b)

\* seq[start:]
PySliceFrom(seq, start) == SubSeq(seq, PyIndex(start, Len(seq)) + 1, Len(seq))

\* Path(p).name: the last component of the path
PathName(p) ==
    With(SelectSeq(Split(p, "/"), LAMBDA x : x # ""), LAMBDA nonempty :
        IF Len(nonempty) = 0 THEN "" ELSE nonempty[Len(nonempty)])

----------------------------------------------------------------------------
(* read_svn_log_file: the svn.log file into the list of log entries.       *)

\* svn_status.SVN_STATUS_CHAR: the status a status character stands for.
SVN_STATUS_CHAR ==
    [c \in {"A", "D", "M", "R"} |->
        CASE c = "A" -> "added"
          [] c = "D" -> "deleted"
          [] c = "M" -> "modified"
          [] c = "R" -> "replaced"]

MonthNames == <<"Jan", "Feb", "Mar", "Apr", "May", "Jun",
                "Jul", "Aug", "Sep", "Oct", "Nov", "Dec">>

\* The lines of the file after the first, cut into one list per log entry:
\* empty lines are skipped and a line of 72 dashes ends an entry.  Lines after
\* the last line of dashes belong to no entry.
ReadChunks(lines) ==
    With(SelectSeq(lines, LAMBDA line : Len(line) # 0), LAMBDA kept :
    With(ItemPositions(kept, Dashes), LAMBDA pos :
        LET n == Len(pos)
            first(j) == IF j = 1 THEN 1 ELSE pos[j - 1] + 1
        IN  SubSeq([j \in 1..n |-> SubSeq(kept, first(j), pos[j] - 1)], 1, n)))

\* datetime.strptime(f"{date} {time}", '%Y-%m-%d %H:%M:%S'), then the date as
\* "<year>-<month name>-<day> <hh>:<mm>"; "ValueError" when it does not parse.
FormatDate(date, time) ==
    With(Split(date, "-"), LAMBDA d :
    With(Split(time, ":"), LAMBDA t :
        IF Len(d) # 3 \/ Len(t) # 3
           \/ \E i \in 1..3 : ~IsNumber(d[i]) \/ ~IsNumber(t[i])
        THEN "ValueError"
        ELSE LET year == ParseInt(d[1])
                 month == ParseInt(d[2])
                 day == ParseInt(d[3])
                 hour == ParseInt(t[1])
                 minute == ParseInt(t[2])
                 second == ParseInt(t[3])
             IN  IF month \notin 1..12 \/ day \notin 1..31 \/ hour > 23
                    \/ minute > 59 \/ second > 61
                 THEN "ValueError"
                 ELSE ToString(year) \o "-" \o MonthNames[month] \o "-"
                      \o ToString(day) \o " " \o ZFill2(hour) \o ":"
                      \o ZFill2(minute)))

NewFile == [svn_path |-> "", revision |-> 0, name |-> "", status |-> "normal"]

NewLogEntry ==
    [revision_number |-> 0, revision_author |-> "", revision_date |-> "",
     commit_message |-> "", changed_files |-> <<>>]

\* The loop over file_change_lines: one changed_files item per line.
RECURSIVE ReadChangedFiles(_, _, _)
ReadChangedFiles(lines0, r_number0, files0) ==
    With3(lines0, r_number0, files0, LAMBDA lines, r_number, files :
        IF Len(lines) = 0 THEN [err |-> "", files |-> files]
        ELSE IF Len(Head(lines)) <= 3 THEN [err |-> "IndexError", files |-> files]
        ELSE LET line == Head(lines)
                 status_char == CharAt(line, 3)
                 file_path == StrFrom(line, 5)
                 entry == [NewFile EXCEPT !.svn_path = file_path,
                                          !.revision = r_number,
                                          !.name = PathName(file_path)]
             IN  IF status_char \notin DOMAIN SVN_STATUS_CHAR
                 THEN [err |-> "KeyError", files |-> Append(files, entry)]
                 ELSE ReadChangedFiles(Tail(lines), r_number,
                          Append(files,
                              [entry EXCEPT !.status = SVN_STATUS_CHAR[status_char]])))

\* chunk[2:-r_msg_length]: the file change set, from line 3 of the entry until
\* the commit message begins.
FileChangeLines(chunk, r_msg_length) == PySlice(chunk, 2, -r_msg_length)

\* "\n".join(chunk[-r_msg_length:])
CommitMessage(chunk, r_msg_length) == Join(PySliceFrom(chunk, -r_msg_length), "\n")

RevisionOrderOk_unchecked(r_number, previous_rev_number) == TRUE

\* assert r_number == previous_rev_number+1
RevisionOrderOk(r_number, previous_rev_number) == r_number = previous_rev_number + 1

\* The lines of the body from "r_msg_length = ..." on, the header's fields
\* being numbers: the date, the changed files and the commit message.
ReadChunkBody(chunk, r_number, r_author, r_date, r_msg_length) ==
    LET e1 == [NewLogEntry EXCEPT !.revision_number = r_number,
                                  !.revision_author = r_author]
    IN
    With(FormatDate(r_date[1], r_date[2]), LAMBDA date_str :
        IF date_str = "ValueError"
        THEN [err |-> "ValueError", added |-> TRUE, entry |-> e1]
        ELSE
        With(ReadChangedFiles(FileChangeLines(chunk, r_msg_length), r_number, <<>>),
             LAMBDA fc :
            LET e3 == [e1 EXCEPT !.revision_date = date_str,
                                 !.changed_files = fc.files]
            IN  IF fc.err # "" THEN [err |-> fc.err, added |-> TRUE, entry |-> e3]
                ELSE [err |-> "", added |-> TRUE,
                      entry |-> [e3 EXCEPT !.commit_message =
                                               CommitMessage(chunk, r_msg_length)]]))

\* The body of the loop over chunks, for one chunk: the exception it ends with
\* ("" if none), whether svn.log.add() was reached, and the entry as far as filled.
ReadChunk(chunk, previous_rev_number) ==
    LET fail(e) == [err |-> e, added |-> FALSE, entry |-> NewLogEntry]
    IN
    IF Len(chunk) = 0 THEN fail("IndexError")
    ELSE
    With(Split(chunk[1], " | "), LAMBDA header :
        IF Len(header) # 4 THEN fail("ValueError")
        ELSE IF ~IsNumber(StrFrom(header[1], 1)) THEN fail("ValueError")
        ELSE
        With3(ParseInt(StrFrom(header[1], 1)), Split(header[3], " "),
              Split(header[4], " ")[1], LAMBDA r_number, r_date, len_field :
            IF ~RevisionOrderOk(r_number, previous_rev_number)
            THEN fail("AssertionError")
            ELSE IF ~IsNumber(len_field) THEN fail("ValueError")
            ELSE IF Len(r_date) # 7 THEN fail("ValueError")
            ELSE ReadChunkBody(chunk, r_number, header[2], r_date,
                               ParseInt(len_field))))

\* The loop over chunks: the exception that ends it ("" if none) and svn.log.
RECURSIVE ReadAllChunks(_, _, _)
ReadAllChunks(chunks0, previous_rev_number0, log0) ==
    With3(chunks0, previous_rev_number0, log0,
          LAMBDA chunks, previous_rev_number, log :
        IF Len(chunks) = 0 THEN [err |-> "", log |-> log]
        ELSE With(ReadChunk(Head(chunks), previous_rev_number), LAMBDA r :
                 LET log2 == IF r.added THEN Append(log, r.entry) ELSE log
                 IN  IF r.err # "" THEN [err |-> r.err, log |-> log2]
                     ELSE ReadAllChunks(Tail(chunks), r.entry.revision_number, log2)))

\* read_svn_log_file(context, filepath): svn.log is cleared first; a file that
\* does not exist leaves it empty.  next(f) skips the first line of the file and
\* raises StopIteration when there is none.
read_svn_log_file(file) ==
    IF ~file.exists THEN [err |-> "", log |-> <<>>]
    ELSE With(FileLines(file.text), LAMBDA lines :
             IF Len(lines) = 0 THEN [err |-> "StopIteration", log |-> <<>>]
             ELSE ReadAllChunks(ReadChunks(Tail(lines)), 0, <<>>))

----------------------------------------------------------------------------
(* What `svn log --verbose` prints: the text the fetch appends to svn.log.  *)

\* The date field of every entry the model's repository holds.
RevDate == "2022-03-07 09:05:41 +0100 (Mon, 07 Mar 2022)"

\* One log entry (revision rev, changed-path lines paths, message lines msg)
\* as svn prints it: the header with the number of message lines, the changed
\* paths, an empty line, the message, and the closing line of dashes.
FormatEntry(e) ==
    "r" \o ToString(e.rev) \o " | " \o e.author \o " | " \o RevDate \o " | "
        \o ToString(Len(e.msg)) \o (IF Len(e.msg) = 1 THEN " line" ELSE " lines")
        \o "\n"
    \o "Changed paths:\n"
    \o Join(SubSeq([i \in 1..Len(e.paths) |->
                       "   " \o e.paths[i].action \o " " \o e.paths[i].path \o "\n"],
                   1, Len(e.paths)), "")
    \o "\n"
    \o Join(SubSeq([i \in 1..Len(e.msg) |-> e.msg[i] \o "\n"], 1, Len(e.msg)), "")
    \o Dashes \o "\n"

\* The whole output for a list of entries: a line of dashes, then the entries.
SvnLogOutput(entries0) ==
    With(entries0, LAMBDA entries :
        Dashes \o "\n"
        \o Join(SubSeq([i \in 1..Len(entries) |-> FormatEntry(entries[i])],
                       1, Len(entries)), ""))

----------------------------------------------------------------------------
(* The reader specification: read_svn_log_file applied to the files svn can *)
(* have written, svn_repo being the entries the file was written from.      *)

\* The i-th changed path of an entry.
PathPool(i) ==
    [action |-> <<"A", "M", "D", "R">>[((i - 1) % 4) + 1],
     path |-> "/lib/f" \o ToString(i) \o ".blend"]

\* The commit messages: up to MaxMsgLines lines, each empty or not.
MsgPool == UNION {[1..n -> {"", "fix"}] : n \in 0..MaxMsgLines}

\* What the k-th entry of a file can be: its revision is k, or k + 1 when the
\* numbering is off there; up to MaxPaths changed paths; any message.
EntryPool(k) ==
    {[rev |-> k + d, author |-> "amy",
      paths |-> [i \in 1..np |-> PathPool(i)], msg |-> m] :
        d \in {0, 1}, np \in 0..MaxPaths, m \in MsgPool}

\* The entry the repository holds for revision r when nothing is special
\* about it: one changed path and a message of one line.
RepoEntry(r) ==
    [rev |-> r, author |-> "amy", paths |-> <<PathPool(r)>>,
     msg |-> <<"commit " \o ToString(r)>>]

\* The lists of n entries read: the plain entries 1..n, one of them at most
\* replaced by any entry of the pool (the reader treats each entry on its own,
\* except for the revision it expects next).
EntryLists(n) ==
    {[k \in 1..n |-> RepoEntry(k)]}
    \cup UNION {{[k \in 1..n |-> IF k = j THEN e ELSE RepoEntry(k)] :
                     e \in EntryPool(j)} : j \in 1..n}

\* The names the user gives to sequences and shots.
SeqNames == {"sq01"}
ShotNames == {"sh010", "sh020"}

\* The i-th strip of the sequence editor covers three frames.
StripStart(i) == 3 * i - 2
StripEnd(i) == 3 * i + 1

\* strip.blezou of a new strip: every property at its default.
NewStrip(i) ==
    [id |-> "", shot |-> "", sequence |-> "", description |-> "",
     shot_id |-> "", shot_name |-> "", shot_description |-> "",
     sequence_name |-> "", sequence_id |-> "",
     project_name |-> "", project_id |-> "",
     initialized |-> FALSE, linked |-> FALSE,
     frame_final_start |-> StripStart(i), frame_final_end |-> StripEnd(i)]

NoReport == [succeeded |-> 0, failed |-> 0]

\* No file list and nothing filtered yet.
InitListIdle ==
    /\ external_files = <<>>
    /\ external_files_active_index = 0
    /\ flt_flags = <<>>
    /\ flt_neworder = <<>>

\* No CacheConfig object, or one with its filepath and _json_obj.
\* _CACHECONFIG_TEMPL: a dict is modelled as the sequence of its (key, value)
\* pairs in insertion order.
CACHECONFIG_TEMPL == [meta |-> [name |-> "", creation_date |-> ""], libs |-> <<>>]

NoConfig == [made |-> FALSE, filepath |-> "", json_obj |-> CACHECONFIG_TEMPL]

\* No cache config, an empty .blend file.
InitCacheIdle ==
    /\ cfg_disk = [exists |-> FALSE, text |-> <<>>]
    /\ config = NoConfig
    /\ bpy_collections = <<>>
    /\ bpy_libraries = <<>>
    /\ cm_collections = <<>>
    /\ cm_collections_index = 0
    /\ cachedir_path = ""

\* MV_OT_toggle_header.__init__: no operator is running, the handler lists of
\* a new instance are empty.
NoToggleOp ==
    [running |-> FALSE,
     area_draw_handle_dict |-> [IMAGE_EDITOR |-> <<>>, SEQUENCE_EDITOR |-> <<>>]]

\* The media viewer is not enabled.
InitViewerIdle ==
    /\ load_post = <<>>
    /\ load_post_handler = <<>>
    /\ registered = FALSE
    /\ draw_handlers = [IMAGE_EDITOR |-> <<>>, SEQUENCE_EDITOR |-> <<>>]
    /\ next_handle = 0
    /\ toggle_op = NoToggleOp
    /\ draw_header_toggle = TRUE

InitHostIdle ==
    /\ InitListIdle
    /\ InitCacheIdle
    /\ InitViewerIdle

InitShots ==
    /\ strips = [i \in 1..NStrips |-> NewStrip(i)]
    /\ zsequences = <<>>
    /\ zshots = <<>>
    /\ report = NoReport

InitScene ==
    /\ render = [resolution_x |-> 1920, resolution_percentage |-> 100,
                 file_format |-> "PNG", quality |-> 90]
    /\ frame_current = 1

InitReader ==
    /\ svn_repo \in UNION {EntryLists(n) : n \in 0..MaxEntries}
    /\ log_file \in (IF svn_repo = <<>> THEN {NoFile} ELSE {})
                      \cup {[exists |-> TRUE, text |-> SvnLogOutput(svn_repo)]}
    /\ svn_log = <<>>
    /\ log_update_in_progress = FALSE
    /\ log_update_cancel_flag = FALSE
    /\ revision_number = 0
    /\ modals = <<>>
    /\ orphans = FALSE
    /\ last_op = "" /\ ret = ""
    /\ InitShots
    /\ InitScene
    /\ InitHostIdle

\* A call of read_svn_log_file(context, filepath) on the file.
ReadLog ==
    /\ last_op = "" /\ ret = ""
    /\ LET r == read_svn_log_file(log_file)
       IN  /\ svn_log' = r.log
           /\ last_op' = "read_svn_log_file" /\ ret' = (IF r.err = "" THEN "None" ELSE r.err)
    /\ UNCHANGED <<log_file, log_update_in_progress, log_update_cancel_flag,
                   revision_number, modals, orphans, svn_repo>>
    /\ UNCHANGED shotVars
    /\ UNCHANGED sceneVars
    /\ UNCHANGED hostVars

NextReader == ReadLog

SpecReader == InitReader /\ [][NextReader]_vars

ReadReturned == last_op = "read_svn_log_file" /\ ret = "None" /\ log_file.exists

\* C5: after read_svn_log_file returns normally for an existing file, the
\* entries of scene.svn.log have the revision numbers 1, 2, ..., n in order;
\* a file whose k-th entry has a revision number other than k makes the read
\* fail with an AssertionError instead.
C5_RevisionsContiguous ==
    /\ ReadReturned =>
          /\ Len(svn_log) = Len(svn_repo)
          /\ \A i \in 1..Len(svn_log) : svn_log[i].revision_number = i
    /\ (last_op = "read_svn_log_file" /\ log_file.exists
          /\ \E k \in 1..Len(svn_repo) : svn_repo[k].rev # k)
       => ret = "AssertionError"

\* C5 witness: a read of a file of several entries has returned normally.
C5_Witness == ReadReturned /\ Len(svn_log) >= 2

\* What read_svn_log_file is to produce for the entry e of the file.
ExpectedChangedFiles(e) ==
    [j \in 1..Len(e.paths) |->
        [svn_path |-> e.paths[j].path, revision |-> e.rev,
         name |-> PathName(e.paths[j].path),
         status |-> SVN_STATUS_CHAR[e.paths[j].action]]]

\* C6: for every well-formed entry of the file, read_svn_log_file produces a
\* log entry whose changed_files are exactly the entry's changed-path lines
\* (revision, path from column 5, status from the character at column 3) and
\* whose commit_message is the entry's message lines joined by newlines.
C6_EntriesParsed ==
    ReadReturned =>
        /\ Len(svn_log) = Len(svn_repo)
        /\ \A i \in 1..Len(svn_repo) :
              /\ Len(svn_log[i].changed_files) = Len(svn_repo[i].paths)
              /\ \A j \in 1..Len(svn_repo[i].paths) :
                    svn_log[i].changed_files[j] = ExpectedChangedFiles(svn_repo[i])[j]
              /\ svn_log[i].commit_message = Join(svn_repo[i].msg, "\n")

----------------------------------------------------------------------------
(* svn.fetch_log: the modal operator around the `svn log` subprocess.       *)

\* self.popen: no subprocess (None), or the subprocess started for the
\* revisions lo..hi, running or finished.
NoPopen == [started |-> FALSE, running |-> FALSE, lo |-> 0, hi |-> 0]

\* The revision of the last entry of svn.log, 0 when the log is empty.
LatestLogRev(log) == IF Len(log) > 0 THEN log[Len(log)].revision_number ELSE 0

\* stdout of `svn log --verbose -r lo:hi`: the revisions asked for, nothing
\* when the range holds none.
SvnStdout(lo, hi) ==
    IF lo > hi THEN ""
    ELSE SvnLogOutput([i \in 1..(hi - lo + 1) |-> RepoEntry(lo + i - 1)])

RemoveAt(seq, i) == SubSeq(seq, 1, i - 1) \o SubSeq(seq, i + 1, Len(seq))

InvokeAlreadyRunning_off == FALSE

\* invoke: if svn.log_update_in_progress
InvokeAlreadyRunning == log_update_in_progress

InvokeUpToDate_strict(latest_log_rev, current_rev) == latest_log_rev > current_rev

\* invoke: if latest_log_rev >= current_rev
InvokeUpToDate(latest_log_rev, current_rev) == latest_log_rev >= current_rev

\* SVN_fetch_log.invoke
Invoke ==
    /\ IF InvokeAlreadyRunning
       THEN /\ last_op' = "invoke" /\ ret' = "CANCELLED"
            /\ UNCHANGED <<log_update_in_progress, log_update_cancel_flag, modals>>
       ELSE IF InvokeUpToDate(LatestLogRev(svn_log), revision_number)
       THEN /\ last_op' = "invoke" /\ ret' = "CANCELLED"
            /\ UNCHANGED <<log_update_in_progress, log_update_cancel_flag, modals>>
       ELSE /\ modals' = Append(modals, [popen |-> NoPopen])
            /\ log_update_in_progress' = TRUE
            /\ log_update_cancel_flag' = FALSE
            /\ last_op' = "invoke" /\ ret' = "RUNNING_MODAL"
    /\ UNCHANGED <<svn_log, log_file, revision_number, orphans, svn_repo>>
    /\ UNCHANGED shotVars
    /\ UNCHANGED sceneVars
    /\ UNCHANGED hostVars

\* The subprocess a modal event starts when self.popen is None: the next
\* revisions after the log's last, MAX_REVS_TO_DOWNLOAD at most.
StartRange(latest_log_rev, current_rev) ==
    LET num_logs_to_get == IF current_rev - latest_log_rev > MAX_REVS_TO_DOWNLOAD
                           THEN MAX_REVS_TO_DOWNLOAD
                           ELSE current_rev - latest_log_rev
        goal_rev == latest_log_rev + num_logs_to_get
    IN  [lo |-> latest_log_rev + 1, hi |-> goal_rev]

\* What one modal event leaves behind: the scene's log and flags, the file,
\* the operator's popen, whether the operator has ended, whether it left a
\* running subprocess to itself, and what modal returned (the exception's
\* name when it raised).
ModalOutcome(log, file, in_progress, cancel_flag, popen, ended, orphaned, val) ==
    [svn_log |-> log, log_file |-> file, log_update_in_progress |-> in_progress,
     log_update_cancel_flag |-> cancel_flag, popen |-> popen, ended |-> ended,
     orphaned |-> orphaned, val |-> val]

ModalCancelled_keeps(popen) ==
    ModalOutcome(svn_log, log_file, log_update_in_progress, FALSE, popen, TRUE,
                 popen.running, "FINISHED")

\* modal, svn.log_update_cancel_flag set: the operator ends, its subprocess,
\* if one is running, is left to itself.
ModalCancelled(popen) ==
    ModalOutcome(svn_log, log_file, FALSE, FALSE, popen, TRUE,
                 popen.running, "FINISHED")

ModalUpToDate_strict(latest_log_rev, current_rev) == latest_log_rev > current_rev

\* modal, after the subprocess finished: if latest_log_rev >= current_rev
ModalUpToDate(latest_log_rev, current_rev) == latest_log_rev >= current_rev

\* new_log[73:]: 72 dashes and a newline
SkipFirstLine(new_log) == StrFrom(new_log, 73)

\* modal, the subprocess popen has finished: its output is appended to the
\* file and the file read again, unless the log was up to date already.
ModalProcess(popen, latest_log_rev) ==
    LET file_existed == log_file.exists
    IN
    With(IF file_existed THEN read_svn_log_file(log_file)
         ELSE [err |-> "", log |-> svn_log], LAMBDA r1 :
        IF r1.err # ""
        THEN \* read_svn_log_file raised: the operator ends with the exception
             ModalOutcome(r1.log, log_file, log_update_in_progress,
                          log_update_cancel_flag, NoPopen, TRUE, FALSE, r1.err)
        ELSE IF ModalUpToDate(latest_log_rev, revision_number)
        THEN ModalOutcome(r1.log, log_file, FALSE, log_update_cancel_flag, NoPopen,
                          TRUE, FALSE, "FINISHED")
        ELSE
        With(SvnStdout(popen.lo, popen.hi), LAMBDA stdout_data :
        With([exists |-> TRUE,
              text |-> log_file.text \o (IF file_existed
                                         THEN SkipFirstLine(stdout_data)
                                         ELSE stdout_data)], LAMBDA file2 :
        With(read_svn_log_file(file2), LAMBDA r2 :
            IF r2.err # ""
            THEN ModalOutcome(r2.log, file2, log_update_in_progress,
                              log_update_cancel_flag, NoPopen, TRUE, FALSE, r2.err)
            ELSE IF Len(r2.log) = 0
            THEN \* context.scene.svn.log[-1] of an empty list
                 ModalOutcome(r2.log, file2, log_update_in_progress,
                              log_update_cancel_flag, NoPopen, TRUE, FALSE,
                              "IndexError")
            ELSE ModalOutcome(r2.log, file2, log_update_in_progress,
                              log_update_cancel_flag, NoPopen, FALSE, FALSE,
                              "RUNNING_MODAL")))))

\* SVN_fetch_log.modal for an operator whose self.popen is popen0.  A
\* subprocess this event starts has finished when polled iff fast.
ModalResult(popen0, fast) ==
    IF log_update_cancel_flag THEN ModalCancelled(popen0)
    ELSE LET latest_log_rev == LatestLogRev(svn_log)
             range == StartRange(latest_log_rev, revision_number)
             popen == IF popen0.started THEN popen0
                      ELSE [started |-> TRUE, running |-> ~fast,
                            lo |-> range.lo, hi |-> range.hi]
         IN  IF popen.running
             THEN ModalOutcome(svn_log, log_file, log_update_in_progress,
                               log_update_cancel_flag, popen, FALSE, FALSE,
                               "PASS_THROUGH")
             ELSE ModalProcess(popen, latest_log_rev)

\* One modal event for the i-th running operator.
Modal(i) ==
    /\ i \in 1..Len(modals)
    /\ last_op' = "modal"
    /\ \E fast \in BOOLEAN :
          /\ fast => ~log_update_cancel_flag /\ ~modals[i].popen.started
          /\ \E r \in {ModalResult(modals[i].popen, fast)} :
                 /\ svn_log' = r.svn_log
                 /\ log_file' = r.log_file
                 /\ log_update_in_progress' = r.log_update_in_progress
                 /\ log_update_cancel_flag' = r.log_update_cancel_flag
                 /\ modals' = IF r.ended THEN RemoveAt(modals, i)
                              ELSE [modals EXCEPT ![i].popen = r.popen]
                 /\ orphans' = (orphans \/ r.orphaned)
                 /\ ret' = r.val
    /\ UNCHANGED <<revision_number, svn_repo>>
    /\ UNCHANGED shotVars
    /\ UNCHANGED sceneVars
    /\ UNCHANGED hostVars

ModalEvent == \E i \in 1..Len(modals) : Modal(i)

\* SVN_fetch_log_cancel.execute
FetchLogCancel ==
    /\ log_update_cancel_flag' = TRUE
    /\ last_op' = "cancel" /\ ret' = "FINISHED"
    /\ UNCHANGED <<svn_log, log_file, log_update_in_progress, revision_number,
                   modals, orphans, svn_repo>>
    /\ UNCHANGED shotVars
    /\ UNCHANGED sceneVars
    /\ UNCHANGED hostVars

\* The subprocess of a running operator terminates.
ProcExit ==
    /\ \E i \in 1..Len(modals) :
          /\ modals[i].popen.running
          /\ modals' = [modals EXCEPT ![i].popen.running = FALSE]
    /\ UNCHANGED <<svn_log, log_file, log_update_in_progress, log_update_cancel_flag,
                   revision_number, orphans, svn_repo, last_op, ret>>
    /\ UNCHANGED shotVars
    /\ UNCHANGED sceneVars
    /\ UNCHANGED hostVars

\* The subprocesses left behind by cancelled operators have terminated.
OrphanExit ==
    /\ orphans
    /\ orphans' = FALSE
    /\ UNCHANGED <<svn_log, log_file, log_update_in_progress, log_update_cancel_flag,
                   revision_number, modals, svn_repo, last_op, ret>>
    /\ UNCHANGED shotVars
    /\ UNCHANGED sceneVars
    /\ UNCHANGED hostVars

\* The revisions the working copy is at: none, the first ones, and the last
\* ones, which are further from the first than one subprocess downloads.
Revisions == {0, 1, 2, MaxRev - 1, MaxRev}

\* The working copy is updated while no fetch runs: prefs.revision_number changes.
SvnUpdate ==
    /\ ~log_update_in_progress
    /\ \E r \in Revisions :
          /\ r # revision_number
          /\ revision_number' = r
    /\ UNCHANGED <<svn_log, log_file, log_update_in_progress, log_update_cancel_flag,
                   modals, orphans, svn_repo, last_op, ret>>
    /\ UNCHANGED shotVars
    /\ UNCHANGED sceneVars
    /\ UNCHANGED hostVars

InitFetch ==
    /\ svn_repo = <<>>
    /\ log_file = NoFile
    /\ svn_log = <<>>
    /\ log_update_in_progress = FALSE
    /\ log_update_cancel_flag = FALSE
    /\ revision_number \in Revisions
    /\ modals = <<>>
    /\ orphans = FALSE
    /\ last_op = "" /\ ret = ""
    /\ InitShots
    /\ InitScene
    /\ InitHostIdle

NextFetch ==
    \/ Invoke
    \/ ModalEvent
    \/ FetchLogCancel
    \/ ProcExit
    \/ OrphanExit
    \/ SvnUpdate

SpecFetch == InitFetch /\ [][NextFetch]_vars

\* Modal events keep arriving and every subprocess terminates.
SpecFetchLive == SpecFetch /\ WF_vars(ModalEvent) /\ WF_vars(ProcExit)

\* C1: svn.fetch_log invoke, called while log_update_in_progress is True,
\* returns CANCELLED and changes nothing (no subprocess started, no modal
\* handler added, both flags kept); hence at most one fetch operator runs.
C1_InvokeWhileRunning ==
    /\ [](Len(modals) <= 1)
    /\ [][(log_update_in_progress /\ Invoke) =>
            /\ last_op' = "invoke" /\ ret' = "CANCELLED"
            /\ UNCHANGED <<modals, orphans, log_update_in_progress,
                           log_update_cancel_flag, svn_log, log_file>>]_vars

\* C1 witness: invoke has returned CANCELLED while a fetch operator runs.
C1_Witness ==
    /\ log_update_in_progress
    /\ Len(modals) = 1
    /\ modals[1].popen.running
    /\ last_op = "invoke" /\ ret = "CANCELLED"

\* The fetch has ended with the log at the working copy's revision.
FetchFinished ==
    /\ last_op = "modal" /\ ret = "FINISHED"
    /\ ~log_update_in_progress
    /\ Len(svn_log) > 0
    /\ svn_log[Len(svn_log)].revision_number = revision_number

\* C2: started by invoke (the log's last revision below prefs.revision_number),
\* with modal events arriving, subprocesses terminating and no cancel
\* requested, the operator eventually returns FINISHED with
\* log_update_in_progress False and the log's last entry at prefs.revision_number.
C2_FetchCompletes ==
    (last_op = "invoke" /\ ret = "RUNNING_MODAL")
        ~> (log_update_cancel_flag \/ FetchFinished)

\* C2 witness: a fetch of more revisions than one subprocess downloads has
\* finished without a cancel request.
C2_Witness ==
    /\ FetchFinished
    /\ ~log_update_cancel_flag
    /\ revision_number > MAX_REVS_TO_DOWNLOAD

\* C3: with the cancel flag set, a modal event returns FINISHED with both flags
\* False, whether or not a subprocess is still running, and neither writes the
\* svn.log file nor changes scene.svn.log.
C3_CancelEndsFetch ==
    [][(log_update_cancel_flag /\ ModalEvent) =>
          /\ last_op' = "modal" /\ ret' = "FINISHED"
          /\ ~log_update_cancel_flag'
          /\ ~log_update_in_progress'
          /\ modals' = <<>>
          /\ UNCHANGED <<svn_log, log_file>>]_vars

\* C3 witness: a fetch was cancelled while its subprocess was still running.
C3_Witness ==
    /\ last_op = "modal" /\ ret = "FINISHED"
    /\ ~log_update_in_progress
    /\ ~log_update_cancel_flag
    /\ orphans

\* C4: invoke, with no fetch in progress and the log's last revision (0 for an
\* empty log) at or above prefs.revision_number, returns CANCELLED, starts no
\* subprocess and leaves log_update_in_progress False.
C4_InvokeUpToDate ==
    [][(~log_update_in_progress /\ LatestLogRev(svn_log) >= revision_number /\ Invoke) =>
          /\ last_op' = "invoke" /\ ret' = "CANCELLED"
          /\ ~log_update_in_progress'
          /\ UNCHANGED <<modals, orphans>>]_vars

\* C4 witness: invoke has returned CANCELLED for a log that is not empty and
\* holds the working copy's revision.
C4_Witness ==
    /\ last_op = "invoke" /\ ret = "CANCELLED"
    /\ ~log_update_in_progress
    /\ modals = <<>>
    /\ Len(svn_log) > 0
    /\ LatestLogRev(svn_log) = revision_number


----------------------------------------------------------------------------
(* blezou: the sequence-editor shot operators.                              *)
(* ops.py reads and writes strip.blezou.id, .shot, .sequence and            *)
(* .description; props.py declares, and clear() resets, shot_id, shot_name, *)
(* shot_description, sequence_name, sequence_id, project_name and           *)
(* project_id.  They are different attributes of strip.blezou and are       *)
(* modelled as different fields.  None and "" are both the empty string.    *)

\* The strips in selection order.
SelectedSequences(sel) == SelectSeq([k \in 1..NStrips |-> k], LAMBDA k : k \in sel)

\* Whether the list holds the item.
InList(x, list) == \E k \in 1..Len(list) : list[k] = x

\* Sync.strip_by_shot
StripByShot(strip, zshot) ==
    [strip EXCEPT !.sequence = IF zshot.sequence_name # "" THEN zshot.sequence_name
                               ELSE @,
                  !.shot = zshot.name,
                  !.description = zshot.description,
                  !.id = zshot.id,
                  !.initialized = TRUE,
                  !.linked = TRUE]

\* BZ_PopertyGroup_SEQ_Shot.clear
Clear(strip) ==
    [strip EXCEPT !.shot_id = "", !.shot_name = "", !.shot_description = "",
                  !.sequence_id = "", !.sequence_name = "",
                  !.project_name = "", !.project_id = "",
                  !.initialized = FALSE, !.linked = FALSE]

\* CheckStrip.initialized
CheckInitialized(strip) == strip.initialized

\* CheckStrip.linked
CheckLinked(strip) == strip.linked

\* CheckStrip.has_meta
HasMeta(strip) == strip.sequence # "" /\ strip.shot # ""

\* ZProject.get_sequence_by_name: whether the project has a sequence of the name
GetSequenceByName(zseqs, name) == InList(name, zseqs)

\* ZProject.create_sequence
CreateSequence(zseqs, name) == Append(zseqs, name)

\* ZProject.get_shot_by_name: the shots of the name in the sequence
GetShotByName(shots, zseq, name) ==
    {k \in 1..Len(shots) : shots[k].sequence_name = zseq /\ shots[k].name = name}

\* ZProject.create_shot: the new shot, with an id no other shot has
CreateShot(shots, name, zseq) ==
    [id |-> "shot" \o ToString(Len(shots) + 1), name |-> name,
     sequence_name |-> zseq, description |-> ""]

\* ZShot.by_id: the shots of the id
ShotById(shots, id) == {k \in 1..Len(shots) : shots[k].id = id}

\* CheckStrip.seq_exists_by_name
SeqExistsByName(strip, zseqs) == GetSequenceByName(zseqs, strip.sequence)

ShotExistsByName_never(strip, shots, zseq) == FALSE

\* CheckStrip.shot_exists_by_name
ShotExistsByName(strip, shots, zseq) == GetShotByName(shots, zseq, strip.shot) # {}

\* BZ_OT_SQE_PushNewShot.execute, the body of the loop for the strip i; st
\* holds the strips, the backend and the two lists as the loop has left them.
PushNewShotStrip(st, i) ==
    LET strip == st.strips[i]
        fail == [st EXCEPT !.failed = Append(@, i)]
    IN  IF CheckLinked(strip) THEN fail
        ELSE IF ~CheckInitialized(strip) THEN fail
        ELSE IF ~HasMeta(strip) THEN fail
        ELSE LET zseqs == IF SeqExistsByName(strip, st.zsequences)
                          THEN st.zsequences
                          ELSE CreateSequence(st.zsequences, strip.sequence)
                 zseq == strip.sequence
             IN  IF ShotExistsByName(strip, st.zshots, zseq)
                 THEN [fail EXCEPT !.zsequences = zseqs]
                 ELSE LET zshot == CreateShot(st.zshots, strip.shot, zseq)
                      IN  [st EXCEPT !.zsequences = zseqs,
                                     !.zshots = Append(@, zshot),
                                     !.strips[i] = StripByShot(strip, zshot),
                                     !.succeeded = Append(@, i)]

\* for strip in context.selected_sequences
RECURSIVE PushNewShotLoop(_, _)
PushNewShotLoop(todo0, st0) ==
    With(todo0, LAMBDA todo :
    With(st0, LAMBDA st :
        IF Len(todo) = 0 THEN st
        ELSE PushNewShotLoop(Tail(todo), PushNewShotStrip(st, Head(todo)))))

\* BZ_OT_SQE_PushNewShot.execute
PushNewShot(sel) ==
    /\ sel # {}
    /\ last_op' = "sqe_push_new_shot"
    /\ \E r \in {PushNewShotLoop(SelectedSequences(sel),
                    [strips |-> strips, zsequences |-> zsequences, zshots |-> zshots,
                     succeeded |-> <<>>, failed |-> <<>>])} :
          /\ strips' = r.strips
          /\ zsequences' = r.zsequences
          /\ zshots' = r.zshots
          /\ report' = [succeeded |-> Len(r.succeeded), failed |-> Len(r.failed)]
    /\ ret' = "FINISHED"
    /\ UNCHANGED svnVars
    /\ UNCHANGED sceneVars
    /\ UNCHANGED hostVars

AlreadyInitialized_never(strip) == FALSE

\* BZ_OT_SQE_InitShot.execute: if strip.blezou.initialized
AlreadyInitialized(strip) == strip.initialized

\* BZ_OT_SQE_InitShot.execute
InitShot(sel) ==
    /\ sel # {}
    /\ strips' = [i \in 1..NStrips |->
                     IF i \in sel /\ ~AlreadyInitialized(strips[i])
                     THEN [strips[i] EXCEPT !.initialized = TRUE]
                     ELSE strips[i]]
    /\ report' = [succeeded |-> Len(SelectSeq(SelectedSequences(sel),
                                       LAMBDA i : ~AlreadyInitialized(strips[i]))),
                  failed |-> Len(SelectSeq(SelectedSequences(sel),
                                    LAMBDA i : AlreadyInitialized(strips[i])))]
    /\ last_op' = "sqe_new_shot" /\ ret' = "FINISHED"
    /\ UNCHANGED <<zsequences, zshots>>
    /\ UNCHANGED svnVars
    /\ UNCHANGED sceneVars
    /\ UNCHANGED hostVars

\* BZ_OT_SQE_DelShot.execute
DelShot(sel) ==
    /\ sel # {}
    /\ strips' = [i \in 1..NStrips |->
                     IF i \in sel /\ CheckInitialized(strips[i])
                     THEN Clear(strips[i])
                     ELSE strips[i]]
    /\ report' = [succeeded |-> Len(SelectSeq(SelectedSequences(sel),
                                       LAMBDA i : CheckInitialized(strips[i]))),
                  failed |-> Len(SelectSeq(SelectedSequences(sel),
                                    LAMBDA i : ~CheckInitialized(strips[i])))]
    /\ last_op' = "sqe_del_shot" /\ ret' = "FINISHED"
    /\ UNCHANGED <<zsequences, zshots>>
    /\ UNCHANGED svnVars
    /\ UNCHANGED sceneVars
    /\ UNCHANGED hostVars

\* BZ_OT_SQE_LinkShot.execute: the active strip takes the data of the shot
\* chosen in the dialog.
LinkShot ==
    /\ \E i \in 1..NStrips, k \in 1..Len(zshots) :
          strips' = [strips EXCEPT ![i] = StripByShot(@, zshots[k])]
    /\ last_op' = "sqe_link_shot" /\ ret' = "FINISHED" /\ report' = NoReport
    /\ UNCHANGED <<zsequences, zshots>>
    /\ UNCHANGED svnVars
    /\ UNCHANGED sceneVars
    /\ UNCHANGED hostVars

\* The user types the sequence and shot names of an initialized strip that
\* is not linked: the information has_meta looks for.
SetMeta ==
    /\ \E i \in 1..NStrips, seq \in SeqNames, shot \in ShotNames :
          /\ strips[i].initialized
          /\ ~strips[i].linked
          /\ strips' = [strips EXCEPT ![i].sequence = seq, ![i].shot = shot]
    /\ last_op' = "" /\ ret' = "" /\ report' = NoReport
    /\ UNCHANGED <<zsequences, zshots>>
    /\ UNCHANGED svnVars
    /\ UNCHANGED sceneVars
    /\ UNCHANGED hostVars

\* context.selected_sequences when an operator runs: its poll wants some strip.
Selections == (SUBSET (1..NStrips)) \ {{}}

InitSvnIdle ==
    /\ svn_repo = <<>>
    /\ log_file = NoFile
    /\ svn_log = <<>>
    /\ log_update_in_progress = FALSE
    /\ log_update_cancel_flag = FALSE
    /\ revision_number = 0
    /\ modals = <<>>
    /\ orphans = FALSE

InitBlezou ==
    /\ InitSvnIdle
    /\ InitShots
    /\ InitScene
    /\ last_op = "" /\ ret = ""
    /\ InitHostIdle

NextShots ==
    \/ SetMeta
    \/ \E sel \in Selections : InitShot(sel)
    \/ \E sel \in Selections : PushNewShot(sel)
    \/ LinkShot
    \/ \E sel \in Selections : DelShot(sel)

SpecShots == InitBlezou /\ [][NextShots]_vars

\* The metadata Sync.strip_by_shot writes and has_meta, the push operators and
\* the duplicate check read, and the properties of the same names in props.py.
HoldsNoShotMetadata(strip) ==
    /\ strip.id = "" /\ strip.shot = "" /\ strip.description = ""
    /\ strip.sequence = ""
    /\ strip.shot_id = "" /\ strip.shot_name = "" /\ strip.shot_description = ""
    /\ strip.sequence_name = ""

\* C7: after blezou.sqe_del_shot every selected strip that was initialized has
\* initialized False and linked False and holds no shot id, shot name,
\* description or sequence name; selected strips that were not initialized are
\* unchanged and counted as failed.
C7_DelShotClears ==
    [][\A sel \in Selections : (last_op' = "sqe_del_shot" /\ DelShot(sel)) =>
          /\ \A i \in sel :
                IF strips[i].initialized
                THEN /\ ~strips'[i].initialized
                     /\ ~strips'[i].linked
                     /\ HoldsNoShotMetadata(strips'[i])
                ELSE strips'[i] = strips[i]
          /\ report'.failed = Cardinality({i \in sel : ~strips[i].initialized})]_vars

\* No two shots of the backend have the same name in the same sequence.
NoDuplicateShots ==
    \A a, b \in 1..Len(zshots) :
        (zshots[a].name = zshots[b].name
            /\ zshots[a].sequence_name = zshots[b].sequence_name) => a = b

\* The strip is one sqe_push_new_shot may create a shot for.
Pushable(strip) ==
    ~strip.linked /\ strip.initialized /\ strip.sequence # "" /\ strip.shot # ""

\* The strip i of the selection is the one a shot is created for: it is
\* pushable, the backend has no shot of its name in its sequence, and no
\* pushable strip earlier in the selection carries the same two names.
GetsNewShot(sel, i) ==
    /\ Pushable(strips[i])
    /\ \A k \in 1..Len(zshots) :
          ~(zshots[k].name = strips[i].shot
              /\ zshots[k].sequence_name = strips[i].sequence)
    /\ \A j \in sel :
          (j < i /\ Pushable(strips[j])) =>
              ~(strips[j].shot = strips[i].shot
                  /\ strips[j].sequence = strips[i].sequence)

\* C8: blezou.sqe_push_new_shot creates a backend shot for a selected strip
\* exactly when the strip is not linked, is initialized, has sequence and shot
\* names and no shot of that name exists yet in that sequence (which is created
\* when missing); the strip becomes linked and initialized with the new shot's
\* id, every other selected strip is counted as failed and unchanged, and no
\* two shots of the same name are ever in the same sequence.
C8_PushNewShotCreatesOnce ==
    /\ []NoDuplicateShots
    /\ [][\A sel \in Selections : (last_op' = "sqe_push_new_shot" /\ PushNewShot(sel)) =>
            \A created \in {{i \in sel : GetsNewShot(sel, i)}} :
                /\ Len(zshots') = Len(zshots) + Cardinality(created)
                /\ SubSeq(zshots', 1, Len(zshots)) = zshots
                /\ \A i \in created :
                      /\ strips'[i].linked /\ strips'[i].initialized
                      /\ \E k \in (Len(zshots) + 1)..Len(zshots') :
                            /\ zshots'[k].name = strips[i].shot
                            /\ zshots'[k].sequence_name = strips[i].sequence
                            /\ strips'[i].id = zshots'[k].id
                      /\ InList(strips[i].sequence, zsequences')
                /\ \A i \in 1..NStrips : i \notin created => strips'[i] = strips[i]
                /\ report'.succeeded = Cardinality(created)
                /\ report'.failed = Cardinality(sel \ created)]_vars

\* C8 witness: two strips carrying the same names were pushed together: one
\* shot was created, one strip is linked to it and the other was counted as
\* failed and is not linked.
C8_Witness ==
    /\ last_op = "sqe_push_new_shot" /\ ret = "FINISHED"
    /\ report = [succeeded |-> 1, failed |-> 1]
    /\ Len(zshots) = 1
    /\ \E i, j \in 1..NStrips :
          /\ i # j
          /\ strips[i].linked /\ strips[i].id = zshots[1].id
          /\ Pushable(strips[j])
          /\ strips[j].shot = strips[i].shot
          /\ strips[j].sequence = strips[i].sequence

\* C9: after blezou.sqe_new_shot every selected strip has initialized True;
\* strips that were initialized are unchanged and counted as failed, the
\* others as succeeded, the two counts add up to the number of selected
\* strips, and no strip's linked flag or other metadata changes.
C9_InitShotInitializes ==
    [][\A sel \in Selections : (last_op' = "sqe_new_shot" /\ InitShot(sel)) =>
          /\ \A i \in sel : strips'[i].initialized
          /\ \A i \in sel : strips[i].initialized => strips'[i] = strips[i]
          /\ report'.failed = Cardinality({i \in sel : strips[i].initialized})
          /\ report'.succeeded = Cardinality({i \in sel : ~strips[i].initialized})
          /\ report'.succeeded + report'.failed = Cardinality(sel)
          /\ \A i \in 1..NStrips :
                strips'[i] = [strips[i] EXCEPT !.initialized = strips'[i].initialized]
          /\ \A i \in (1..NStrips) \ sel : strips'[i] = strips[i]
          /\ UNCHANGED <<zsequences, zshots>>]_vars

\* C9 witness: sqe_new_shot ran on a selection of an initialized, linked strip
\* and a strip that was not initialized.
C9_Witness ==
    /\ last_op = "sqe_new_shot" /\ ret = "FINISHED"
    /\ report = [succeeded |-> 1, failed |-> 1]
    /\ \E i, j \in 1..NStrips :
          /\ strips[i].initialized /\ strips[i].linked
          /\ strips[j].initialized /\ ~strips[j].linked /\ strips[j].shot = ""

----------------------------------------------------------------------------
(* blezou.sqe_push_thumbnail: render settings and current frame are        *)
(* overridden while the thumbnails are rendered and uploaded.               *)

\* round(num / den) of Python for num >= 0, den > 0: to the nearest integer,
\* a tie to the even one.
PyRound(num, den) ==
    LET q == num \div den
        r == num % den
    IN  IF 2 * r < den THEN q
        ELSE IF 2 * r > den THEN q + 1
        ELSE IF q % 2 = 0 THEN q ELSE q + 1

\* override_render_settings, the try block
OverrideRenderSettings(rd) ==
    [rd EXCEPT !.resolution_percentage = PyRound(THUMBNAIL_WIDTH * 100, rd.resolution_x),
               !.file_format = "JPEG",
               !.quality = 80]

RestoreRenderSettings_none(rd, orig) == rd

\* override_render_settings, the finally block
RestoreRenderSettings(rd, orig) ==
    [rd EXCEPT !.resolution_percentage = orig.resolution_percentage,
               !.file_format = orig.file_format,
               !.quality = orig.quality]

\* temporary_current_frame, the finally block
RestoreCurrentFrame(frame, current_frame) == current_frame

\* CheckStrip.contains
Contains(strip, framenr) ==
    strip.frame_final_start <= framenr /\ framenr <= strip.frame_final_end

\* set_middle_frame
MiddleFrame(strip) == PyRound(strip.frame_final_start + strip.frame_final_end, 2)

\* CheckStrip.shot_exists_by_id: the log line of the else branch reads
\* zshot.name of the shot that was not found.
ShotExistsById(strip, shots) ==
    IF ShotById(shots, strip.id) # {} THEN "" ELSE "AttributeError"

\* BZ_OT_SQE_PushThumbnail.execute, the body of the loop for the strip i; st
\* holds the scene's frame, the upload queue, the failed strips and the
\* exception raised ("" if none).  Rendering the strip render_fails_at raises.
PushThumbnailStrip(st, i, do_multishot, original_curframe, render_fails_at) ==
    LET strip == strips[i]
        found == ShotExistsById(strip, zshots)
        frame == IF do_multishot \/ ~Contains(strip, original_curframe)
                 THEN MiddleFrame(strip) ELSE st.frame
    IN  IF ~CheckLinked(strip) THEN [st EXCEPT !.failed = Append(@, i)]
        ELSE IF found # "" THEN [st EXCEPT !.err = found]
        ELSE IF render_fails_at = i
        THEN [st EXCEPT !.frame = frame, !.err = "RuntimeError"]
        ELSE [st EXCEPT !.frame = frame,
                        !.queue = Append(@, [id |-> strip.id, frame |-> frame])]

\* for strip in context.selected_sequences, until an exception ends it
RECURSIVE PushThumbnailLoop(_, _, _, _, _)
PushThumbnailLoop(todo0, st0, do_multishot, original_curframe, render_fails_at) ==
    With(todo0, LAMBDA todo :
    With(st0, LAMBDA st :
        IF Len(todo) = 0 \/ st.err # "" THEN st
        ELSE PushThumbnailLoop(Tail(todo),
                 PushThumbnailStrip(st, Head(todo), do_multishot, original_curframe,
                                    render_fails_at),
                 do_multishot, original_curframe, render_fails_at)))

\* _upload_thumbnails: raises when the task status or task type is missing
UploadThumbnails(upload_queue, upload_fails) ==
    IF Len(upload_queue) > 0 /\ upload_fails THEN "RuntimeError" ELSE ""

\* BZ_OT_SQE_PushThumbnail.execute
PushThumbnail(sel, render_fails_at, upload_fails) ==
    /\ sel # {}
    /\ last_op' = "sqe_push_thumbnail"
    /\ \E loop \in {PushThumbnailLoop(SelectedSequences(sel),
                         [frame |-> frame_current, queue |-> <<>>, failed |-> <<>>,
                          err |-> ""],
                         Cardinality(sel) > 1, frame_current, render_fails_at)} :
          LET orig == render
              current_frame == frame_current
              overridden == OverrideRenderSettings(render)
              err == IF loop.err # "" THEN loop.err
                     ELSE UploadThumbnails(loop.queue, upload_fails)
          IN  /\ frame_current' = RestoreCurrentFrame(loop.frame, current_frame)
              /\ render' = RestoreRenderSettings(overridden, orig)
              /\ report' = IF err = ""
                           THEN [succeeded |-> Len(loop.queue), failed |-> Len(loop.failed)]
                           ELSE NoReport
              /\ ret' = (IF err = "" THEN "FINISHED" ELSE err)
    /\ UNCHANGED <<strips, zsequences, zshots>>
    /\ UNCHANGED svnVars
    /\ UNCHANGED hostVars

\* The frames the user can put the scene at.
Frames == 1..(StripEnd(NStrips) + 1)

\* The user moves to another frame.
SetFrame ==
    /\ last_op' = "" /\ ret' = "" /\ report' = NoReport
    /\ \E f \in Frames :
          /\ f # frame_current
          /\ frame_current' = f
    /\ UNCHANGED render
    /\ UNCHANGED <<strips, zsequences, zshots>>
    /\ UNCHANGED svnVars
    /\ UNCHANGED hostVars

\* The render settings the user chooses from.
RenderPool ==
    [resolution_x : {1920, 10240}, resolution_percentage : {100, 50},
     file_format : {"PNG", "JPEG"}, quality : {90}]

\* The user changes the render settings.
SetRender ==
    /\ last_op' = "" /\ ret' = "" /\ report' = NoReport
    /\ \E rd \in RenderPool :
          /\ rd # render
          /\ render' = rd
    /\ UNCHANGED frame_current
    /\ UNCHANGED <<strips, zsequences, zshots>>
    /\ UNCHANGED svnVars
    /\ UNCHANGED hostVars

\* The shot the backend holds for the i-th strip.
BackendShot(i) ==
    [id |-> "shot" \o ToString(i), name |-> "sh0" \o ToString(i) \o "0",
     sequence_name |-> "sq01", description |-> ""]

\* The strips are new or linked to their shots; the backend may have lost the
\* shot of the last strip.
InitThumb ==
    /\ InitSvnIdle
    /\ InitScene
    /\ strips \in [1..NStrips -> UNION {{NewStrip(i), StripByShot(NewStrip(i), BackendShot(i))} :
                                          i \in 1..NStrips}]
    /\ \A i \in 1..NStrips : strips[i].frame_final_start = StripStart(i)
    /\ zsequences = <<"sq01">>
    /\ zshots \in {[i \in 1..n |-> BackendShot(i)] : n \in {NStrips - 1, NStrips}}
    /\ report = NoReport
    /\ last_op = "" /\ ret = ""
    /\ InitHostIdle

NextThumb ==
    \/ SetFrame
    \/ SetRender
    \/ \E sel \in Selections, render_fails_at \in 0..NStrips, upload_fails \in BOOLEAN :
          PushThumbnail(sel, render_fails_at, upload_fails)

SpecThumb == InitThumb /\ [][NextThumb]_vars

\* The four values execute overrides are, after the step, what they were.
SceneRestored ==
    /\ render'.resolution_percentage = render.resolution_percentage
    /\ render'.file_format = render.file_format
    /\ render'.quality = render.quality
    /\ frame_current' = frame_current

\* C10: blezou.sqe_push_thumbnail leaves resolution_percentage, file_format,
\* quality and frame_current as they were before execute started, whether it
\* ends normally or by an exception raised while rendering or uploading: a
\* step that does not leave them so is not a step of execute, whatever the
\* selection and wherever the exception.
C10_ThumbnailRestoresScene ==
    [][SceneRestored
       \/ ~(\E sel \in Selections, render_fails_at \in 0..NStrips,
                upload_fails \in BOOLEAN :
                  PushThumbnail(sel, render_fails_at, upload_fails))]_vars

\* C10 witness: execute ended by an exception with a linked strip selected,
\* the scene at a frame outside every strip and at settings that are not the
\* thumbnail's.
C10_Witness ==
    /\ last_op = "sqe_push_thumbnail" /\ ret = "RuntimeError"
    /\ strips[1].linked
    /\ frame_current = StripEnd(NStrips) + 1
    /\ render.file_format = "PNG"
    /\ render.resolution_percentage = 50
    /\ render.quality = 90

----------------------------------------------------------------------------
(* SVN_UL_log.filter_items: the revision history list of the active file.  *)
(* The items of external_files are SVN_file as svn_log.py declares it,     *)
(* with the svn_path filter_items reads.                                   *)

\* UIList.bitflag_filter_item of the host: the flag of a shown item.
bitflag_filter_item == 1073741824

EntryAffects_bare(log_entry, active_file) ==
    \E k \in 1..Len(log_entry.changed_files) :
        log_entry.changed_files[k].svn_path = active_file.svn_path

\* The inner loop of filter_items: whether some affected_file of the entry has
\* svn_path == "/" + active_file.svn_path (the loop breaks at the first).
EntryAffects(log_entry, active_file) ==
    \E k \in 1..Len(log_entry.changed_files) :
        log_entry.changed_files[k].svn_path = "/" \o active_file.svn_path

\* SVN_UL_log.filter_items(context, scene.svn, "log")
FilterItems ==
    /\ last_op' = "filter_items"
    /\ IF external_files_active_index \notin 0..(Len(external_files) - 1)
       THEN \* svn.external_files[svn.external_files_active_index]
            /\ ret' = "IndexError"
            /\ UNCHANGED <<flt_flags, flt_neworder>>
       ELSE LET active_file == external_files[external_files_active_index + 1]
            IN  /\ flt_flags' = [idx \in 1..Len(svn_log) |->
                                    IF EntryAffects(svn_log[idx], active_file)
                                    THEN bitflag_filter_item ELSE 0]
                /\ flt_neworder' = <<>>
                /\ ret' = "flt_flags, flt_neworder"
    /\ UNCHANGED <<external_files, external_files_active_index>>
    /\ UNCHANGED svnVars
    /\ UNCHANGED shotVars
    /\ UNCHANGED sceneVars
    /\ UNCHANGED cacheVars
    /\ UNCHANGED viewerVars

\* The user picks another file of the list (or the index is left past the
\* end of a list that shrank).
SetActiveFile ==
    /\ \E i \in 0..Len(external_files) :
          /\ i # external_files_active_index
          /\ external_files_active_index' = i
    /\ last_op' = "" /\ ret' = ""
    /\ UNCHANGED <<external_files, flt_flags, flt_neworder>>
    /\ UNCHANGED svnVars
    /\ UNCHANGED shotVars
    /\ UNCHANGED sceneVars
    /\ UNCHANGED cacheVars
    /\ UNCHANGED viewerVars

\* The files the .blend file references: some of the files the log's entries
\* changed, one that none changed, and one whose path is the end of another's.
FilePool ==
    <<[svn_path |-> "lib/f1.blend"], [svn_path |-> "lib/f2.blend"],
      [svn_path |-> "lib/f9.blend"], [svn_path |-> "f1.blend"]>>

\* The log is what read_svn_log_file read from a file svn wrote.
InitLogList ==
    /\ svn_repo \in UNION {EntryLists(n) : n \in 0..MaxEntries}
    /\ log_file = [exists |-> TRUE, text |-> SvnLogOutput(svn_repo)]
    /\ read_svn_log_file(log_file).err = ""
    /\ svn_log = read_svn_log_file(log_file).log
    /\ log_update_in_progress = FALSE
    /\ log_update_cancel_flag = FALSE
    /\ revision_number = Len(svn_repo)
    /\ modals = <<>>
    /\ orphans = FALSE
    /\ external_files \in {SubSeq(FilePool, 1, n) : n \in {0, Len(FilePool)}}
    /\ external_files_active_index = 0
    /\ flt_flags = <<>>
    /\ flt_neworder = <<>>
    /\ last_op = "" /\ ret = ""
    /\ InitShots
    /\ InitScene
    /\ InitCacheIdle
    /\ InitViewerIdle

NextLogList ==
    \/ FilterItems
    \/ SetActiveFile

SpecLogList == InitLogList /\ [][NextLogList]_vars

\* The svn_paths of the files the log entry affected.
AffectedPaths(log_entry) ==
    {log_entry.changed_files[k].svn_path : k \in 1..Len(log_entry.changed_files)}

MaxColls == 2

\* Imports are run on a file while it holds fewer imported collections.
MaxImported == 1

\* The files of the model: the cache config, and two libraries with the
\* collections they hold ("char" exists in both).
ConfigFile == "/shot/cacheconfig.json"

LibFiles == <<"/lib/char.blend", "/lib/set.blend">>

LibraryCollections(libfile) ==
    IF libfile = "/lib/char.blend" THEN {"char", "rig"}
    ELSE IF libfile = "/lib/set.blend" THEN {"set", "char"}
    ELSE {}

\* bool(Path(...)): pathlib defines neither __bool__ nor __len__, every Path is
\* truthy, Path("") included.
PathTruth(filepath) == TRUE

\* Path.exists(): Path("") is Path("."), the working directory.
PathExists(filepath, disk) ==
    IF filepath = "" THEN TRUE
    ELSE IF filepath = ConfigFile THEN disk.exists
    ELSE \E i \in DOMAIN LibFiles : LibFiles[i] = filepath

\* Dict helpers on (key, value) pair sequences.
DictHas(d, k) == \E i \in DOMAIN d : d[i].key = k

DictIndex(d, k) == CHOOSE i \in DOMAIN d : d[i].key = k

\* json.dump: the text of the file, one line per key of the object:
\* the meta line, then per library its line and the lines of its collections.
RECURSIVE DumpCollections(_)
DumpCollections(colldata) ==
    IF colldata = <<>> THEN <<>>
    ELSE <<<<"coll", Head(colldata).key, Head(colldata).cachefile>>>>
         \o DumpCollections(Tail(colldata))

RECURSIVE DumpLibs(_)
DumpLibs(libs) ==
    IF libs = <<>> THEN <<>>
    ELSE <<<<"lib", Head(libs).key>>>> \o DumpCollections(Head(libs).collections)
         \o DumpLibs(Tail(libs))

save_as_json(data) ==
    [exists |-> TRUE,
     text |-> <<<<"meta", data.meta.name, data.meta.creation_date>>>>
              \o DumpLibs(data.libs)]

\* json.loads: rebuilds the object from the lines of the file.
RECURSIVE LoadLines(_, _)
LoadLines(text, obj) ==
    IF text = <<>> THEN obj
    ELSE LET tk == Head(text)
         IN  LoadLines(Tail(text),
                 IF tk[1] = "meta"
                 THEN [obj EXCEPT !.meta = [name |-> tk[2], creation_date |-> tk[3]]]
                 ELSE IF tk[1] = "lib"
                 THEN [obj EXCEPT !.libs = Append(@, [key |-> tk[2],
                                                      collections |-> <<>>])]
                 ELSE [obj EXCEPT !.libs[Len(obj.libs)].collections =
                                      Append(@, [key |-> tk[2], cachefile |-> tk[3]])])

\* read_json: open() fails on a missing file and on a directory.
read_json(filepath, disk) ==
    IF filepath = "" THEN [err |-> "IsADirectoryError", obj |-> CACHECONFIG_TEMPL]
    ELSE IF ~(filepath = ConfigFile /\ disk.exists)
    THEN [err |-> "FileNotFoundError", obj |-> CACHECONFIG_TEMPL]
    ELSE [err |-> "", obj |-> LoadLines(disk.text, CACHECONFIG_TEMPL)]

\* CacheConfig.load: the filepath is assigned before the file is read.
load(cfg, filepath, disk) ==
    LET r == read_json(filepath, disk)
    IN  [err |-> r.err,
         cfg |-> [made |-> TRUE, filepath |-> filepath,
                  json_obj |-> IF r.err = "" THEN r.obj ELSE cfg.json_obj]]

\* CacheConfig._is_filepath
is_filepath(cfg, disk) ==
    IF ~PathTruth(cfg.filepath) THEN FALSE
    ELSE IF ~PathExists(cfg.filepath, disk) THEN FALSE
    ELSE TRUE

\* bpy.data.collections[name]: the index of the first collection of that name,
\* 0 for a KeyError.
LookupByName(colls, name) ==
    IF \E i \in DOMAIN colls : colls[i].name = name
    THEN CHOOSE i \in DOMAIN colls :
             /\ colls[i].name = name
             /\ \A j \in 1..(i - 1) : colls[j].name # name
    ELSE 0

\* The name Blender gives a datablock read into the file: local names are
\* unique, a taken name gets a numeric suffix.
UniqueName(colls, name) ==
    LET taken(n) == \E i \in DOMAIN colls : colls[i].library = "" /\ colls[i].name = n
    IN  IF ~taken(name) THEN name
        ELSE IF ~taken(name \o ".001") THEN name \o ".001"
        ELSE IF ~taken(name \o ".002") THEN name \o ".002"
        ELSE name \o ".003"

\* Leaving the "with bpy.data.libraries.load(...)" block: the collections named
\* in data_to are appended to the file as local datablocks, not yet linked to
\* any scene.  origin is the library file the datablock was read from.
RECURSIVE LibraryLoad(_, _, _)
LibraryLoad(colls, libfile, data_to) ==
    IF data_to = <<>> THEN colls
    ELSE LibraryLoad(Append(colls, [name |-> UniqueName(colls, Head(data_to)),
                                    library |-> "", origin |-> libfile,
                                    origin_name |-> Head(data_to),
                                    cachefile |-> "", in_scene |-> FALSE]),
                     libfile, Tail(data_to))

\* The first loop over colldata: what ends up in data_to.collections.
RECURSIVE AppendLoop(_, _, _)
AppendLoop(colldata, data_from, data_to) ==
    IF colldata = <<>> THEN data_to
    ELSE LET coll_name == Head(colldata).key
         IN  IF coll_name \notin data_from
             THEN AppendLoop(Tail(colldata), data_from, data_to)
             ELSE IF \E i \in DOMAIN data_to : data_to[i] = coll_name
             THEN AppendLoop(Tail(colldata), data_from, data_to)
             ELSE AppendLoop(Tail(colldata), data_from, Append(data_to, coll_name))

\* CacheConfig._add_coll_to_cm_collections, on the collection at index i.
add_coll_to_cm_collections(st, i) ==
    IF \E k \in DOMAIN st.cm : st.cm[k].name = st.colls[i].name
    THEN st
    ELSE [st EXCEPT !.cm = Append(@, [name |-> st.colls[i].name, coll_ptr |-> i]),
                    !.index = Len(st.cm)]

\* The second loop over colldata: look each name up in the file, link it to the
\* scene, set its cachefile, add it to the cache collections list.
RECURSIVE LinkLoop(_, _)
LinkLoop(colldata, st) ==
    IF colldata = <<>> \/ st.err # "" THEN st
    ELSE LET coll_name == Head(colldata).key
             cachefile == Head(colldata).cachefile
             coll == LookupByName(st.colls, coll_name)
         IN  IF coll = 0
             THEN [st EXCEPT !.err = "KeyError"]
             ELSE LinkLoop(Tail(colldata),
                      With([st EXCEPT
                               \* children.link raises RuntimeError, caught,
                               \* when the collection is linked already
                               !.colls[coll].in_scene = TRUE,
                               !.colls[coll].cachefile = cachefile,
                               !.imported = Append(@, coll)],
                           LAMBDA s : add_coll_to_cm_collections(s, coll)))

\* CacheConfig._process_json_obj: library by library, append then link.
RECURSIVE process_json_obj(_, _)
process_json_obj(libs, st) ==
    IF libs = <<>> \/ st.err # "" THEN st
    ELSE LET libfile == Head(libs).key
             colldata == Head(libs).collections
             data_to == AppendLoop(colldata, LibraryCollections(libfile), <<>>)
         IN  process_json_obj(Tail(libs),
                 With([st EXCEPT !.colls = LibraryLoad(@, libfile, data_to)],
                      LAMBDA s : LinkLoop(colldata, s)))

\* The collections of the file that an import brought in.
Imported == {i \in DOMAIN bpy_collections : bpy_collections[i].origin # ""}

\* CacheConfig.process (the model stops importing into a file that holds
\* MaxImported imported collections).
Process ==
    /\ last_op' = "process"
    /\ config.made
    /\ Cardinality(Imported) < MaxImported
    /\ IF ~is_filepath(config, cfg_disk)
       THEN /\ ret' = "RuntimeError"
            /\ UNCHANGED <<bpy_collections, cm_collections, cm_collections_index>>
       ELSE \E st \in {process_json_obj(config.json_obj.libs,
                           [colls |-> bpy_collections, cm |-> cm_collections,
                            index |-> cm_collections_index, err |-> "",
                            imported |-> <<>>])} :
                /\ bpy_collections' = st.colls
                /\ cm_collections' = st.cm
                /\ cm_collections_index' = st.index
                /\ ret' = IF st.err = "" THEN "None" ELSE st.err
    /\ UNCHANGED <<cfg_disk, config, bpy_libraries, cachedir_path>>
    /\ UNCHANGED <<listVars, svnVars, shotVars, sceneVars, viewerVars>>

\* CacheConfigFactory.load_config_from_file
LoadConfigFromFile(filepath) ==
    /\ last_op' = "load_config_from_file"
    /\ IF ~PathExists(filepath, cfg_disk)
       THEN ret' = "ValueError" /\ UNCHANGED config
       ELSE \E r \in {load(NoConfig, filepath, cfg_disk)} :
                IF r.err # ""
                THEN \* the constructor raised: no object is returned
                     ret' = r.err /\ UNCHANGED config
                ELSE ret' = "CacheConfig" /\ config' = r.cfg
    /\ UNCHANGED <<cfg_disk, bpy_collections, bpy_libraries, cm_collections,
                   cm_collections_index, cachedir_path>>
    /\ UNCHANGED <<listVars, svnVars, shotVars, sceneVars, viewerVars>>

\* CacheConfig.load on the object at hand.
ConfigLoad(filepath) ==
    /\ last_op' = "load"
    /\ config.made
    /\ \E r \in {load(config, filepath, cfg_disk)} :
           /\ config' = r.cfg
           /\ ret' = IF r.err = "" THEN "None" ELSE r.err
    /\ UNCHANGED <<cfg_disk, bpy_collections, bpy_libraries, cm_collections,
                   cm_collections_index, cachedir_path>>
    /\ UNCHANGED <<listVars, svnVars, shotVars, sceneVars, viewerVars>>

\* The config file is deleted from disk behind the addon's back.
DeleteConfigFile ==
    /\ cfg_disk.exists
    /\ cfg_disk' = [exists |-> FALSE, text |-> <<>>]
    /\ last_op' = "" /\ ret' = ""
    /\ UNCHANGED <<config, bpy_collections, bpy_libraries, cm_collections,
                   cm_collections_index, cachedir_path>>
    /\ UNCHANGED <<listVars, svnVars, shotVars, sceneVars, viewerVars>>

\* The paths handed to the loaders: the empty path, the config, a missing file.
ConfigPaths == {"", ConfigFile, "/shot/missing.json"}

\* The collection names a config may carry: "ghost" is in no library.
ConfigCollNames == {"char", "rig", "ghost"}

CachefileOf(coll_name) == "/cache/" \o coll_name \o ".abc"

\* All colldata dicts with at most MaxColls distinct names.
CollDatas ==
    UNION {{[i \in 1..m |-> [key |-> q[i], cachefile |-> CachefileOf(q[i])]] :
               q \in {f \in [1..m -> ConfigCollNames] :
                         \A i, j \in 1..m : i # j => f[i] # f[j]}} :
           m \in 0..MaxColls}

\* All "libs" dicts over the library files, each key at most once.
LibDicts ==
    UNION {{[i \in 1..m |-> [key |-> LibFiles[q[i]], collections |-> cd[i]]] :
               q \in {f \in [1..m -> DOMAIN LibFiles] :
                         \A i, j \in 1..m : i # j => f[i] # f[j]},
               cd \in [1..m -> CollDatas]} :
           m \in 0..Len(LibFiles)}

\* A config file written earlier is on disk; the .blend file is empty or has a
\* local collection "char" linked to its scene.
InitCacheImport ==
    /\ \E libs \in LibDicts :
           cfg_disk = save_as_json([meta |-> [name |-> "shot.blend",
                                              creation_date |-> "2021-01-01T00:00:00"],
                                    libs |-> libs])
    /\ config = NoConfig
    /\ bpy_collections \in
           {<<>>, <<[name |-> "char", library |-> "", origin |-> "",
                     origin_name |-> "char", cachefile |-> "", in_scene |-> TRUE]>>}
    /\ bpy_libraries = <<>>
    /\ cm_collections = <<>>
    /\ cm_collections_index = 0
    /\ cachedir_path = "/cache"
    /\ InitListIdle
    /\ InitViewerIdle
    /\ InitSvnIdle
    /\ InitShots
    /\ InitScene
    /\ last_op = "" /\ ret = ""

NextCacheImport ==
    \/ \E filepath \in ConfigPaths : LoadConfigFromFile(filepath)
    \/ \E filepath \in ConfigPaths : ConfigLoad(filepath)
    \/ DeleteConfigFile
    \/ Process

SpecCacheImport == InitCacheImport /\ [][NextCacheImport]_vars

\* The entries (library, collection) of a config, and whether the library
\* holds the collection.
ConfigEntries(obj) ==
    UNION {{<<l, c>> : c \in DOMAIN obj.libs[l].collections} : l \in DOMAIN obj.libs}

EntryInLibrary(obj, e) ==
    obj.libs[e[1]].collections[e[2]].key \in LibraryCollections(obj.libs[e[1]].key)

\* The collection of a config entry is in the file, appended from its library,
\* linked to the scene, carries the entry's cachefile, and is in the cache
\* collections list.
EntryImported(obj, e) ==
    \E i \in DOMAIN bpy_collections :
        /\ bpy_collections[i].origin = obj.libs[e[1]].key
        /\ bpy_collections[i].origin_name = obj.libs[e[1]].collections[e[2]].key
        /\ bpy_collections[i].in_scene
        /\ bpy_collections[i].cachefile = obj.libs[e[1]].collections[e[2]].cachefile
        /\ \E k \in DOMAIN cm_collections : cm_collections[k].coll_ptr = i

\* C11: when process has run on a config that names a collection missing from
\* its library, it has completed without an error and every entry whose
\* collection does exist in its library is appended, linked into the scene,
\* given its cachefile and added to the cache collections list.
C11_MissingCollectionSkipped ==
    (/\ last_op = "process"
     /\ ret # "RuntimeError"
     /\ \E e \in ConfigEntries(config.json_obj) : ~EntryInLibrary(config.json_obj, e))
    => /\ ret = "None"
       /\ \A e \in ConfigEntries(config.json_obj) :
              EntryInLibrary(config.json_obj, e) => EntryImported(config.json_obj, e)

\* C12: load_config_from_file raises ValueError for a path that does not
\* exist, and process raises RuntimeError, importing and linking nothing, when
\* the filepath of the config is empty or no longer exists on disk.
C12_InvalidPathRejected ==
    [][/\ \A filepath \in ConfigPaths :
              (/\ last_op' = "load_config_from_file"
               /\ ~PathExists(filepath, cfg_disk)
               /\ LoadConfigFromFile(filepath))
              => ret' = "ValueError"
       /\ (/\ last_op' = "process"
           /\ (config.filepath = "" \/ ~PathExists(config.filepath, cfg_disk))
           /\ Process)
          => /\ ret' = "RuntimeError"
             /\ UNCHANGED <<bpy_collections, cm_collections, cm_collections_index>>]_vars


\* ===========================================================================
\* cache_manager/cache.py: generating the cache config from the scene
\* ===========================================================================

\* os.path.abspath(bpy.path.abspath(lib.filepath)): library paths are stored
\* relative to the .blend file ("//"), which lies in /shot.
AbsLibPath(filepath) ==
    IF filepath = "//../lib/char.blend" THEN "/lib/char.blend"
    ELSE IF filepath = "//../lib/set.blend" THEN "/lib/set.blend"
    ELSE "/shot/" \o filepath

\* props.get_cache_collections: the collections the items of the cache
\* collections list point to.
get_cache_collections == {cm_collections[k].coll_ptr : k \in DOMAIN cm_collections}

\* gen_filename_collection
gen_filename_collection(collection) == collection.name \o ".abc"

\* gen_cachepath_collection: joinpath under the cache directory; absolute()
\* leaves the path as it is, the cache directories of the model being absolute.
gen_cachepath_collection(collection) ==
    IF ~PathTruth(cachedir_path)
    THEN [err |-> "ValueError", path |-> ""]
    ELSE [err |-> "", path |-> cachedir_path \o "/" \o gen_filename_collection(collection)]

\* d[k] = {"cachefile": cachefile} on a colldata dict.
SetCachefile(d, k, cachefile) ==
    IF DictHas(d, k)
    THEN [d EXCEPT ![DictIndex(d, k)].cachefile = cachefile]
    ELSE Append(d, [key |-> k, cachefile |-> cachefile])

\* gen_config_from_scene: the loop over lib.users_id.
RECURSIVE GenLibItems(_, _, _)
GenLibItems(lib_items, libfile, libs) ==
    IF lib_items = <<>> THEN libs
    ELSE LET item == Head(lib_items)
         IN  IF item.identifier # "Collection"
             THEN GenLibItems(Tail(lib_items), libfile, libs)
             ELSE IF LookupByName(bpy_collections, item.name) \notin get_cache_collections
             THEN GenLibItems(Tail(lib_items), libfile, libs)
             ELSE LET coll == bpy_collections[item.ptr]
                      withlib == IF ~DictHas(libs, libfile)
                                 THEN Append(libs, [key |-> libfile, collections |-> <<>>])
                                 ELSE libs
                      l == DictIndex(withlib, libfile)
                  IN  GenLibItems(Tail(lib_items), libfile,
                          [withlib EXCEPT ![l].collections =
                              SetCachefile(@, coll.name,
                                           gen_cachepath_collection(coll).path)])

\* gen_config_from_scene: the loop over bpy.data.libraries.
RECURSIVE GenLibs(_, _)
GenLibs(libraries, libs) ==
    IF libraries = <<>> THEN libs
    ELSE GenLibs(Tail(libraries),
                 GenLibItems(Head(libraries).users_id,
                             AbsLibPath(Head(libraries).filepath), libs))

\* CacheConfigFactory.gen_config_from_scene(context, ConfigFile), at time now.
GenConfigFromScene(now) ==
    /\ last_op' = "gen_config_from_scene"
    /\ \E json_obj \in {[meta |-> [name |-> "shot.blend", creation_date |-> now],
                         libs |-> GenLibs(bpy_libraries, CACHECONFIG_TEMPL.libs)]} :
           /\ cfg_disk' = save_as_json(json_obj)
           /\ \E r \in {load(NoConfig, ConfigFile, save_as_json(json_obj))} :
                  /\ config' = r.cfg
                  /\ ret' = IF r.err = "" THEN "CacheConfig" ELSE r.err
    /\ UNCHANGED <<bpy_collections, bpy_libraries, cm_collections,
                   cm_collections_index, cachedir_path>>
    /\ UNCHANGED <<listVars, svnVars, shotVars, sceneVars, viewerVars>>

\* The user adds a collection of the file to the cache collections list, or
\* removes an item from it (the list operators of the addon).
AddCacheCollection(i) ==
    /\ i \in DOMAIN bpy_collections
    /\ \A k \in DOMAIN cm_collections : cm_collections[k].coll_ptr # i
    /\ cm_collections' = Append(cm_collections,
                                [name |-> bpy_collections[i].name, coll_ptr |-> i])
    /\ cm_collections_index' = Len(cm_collections)
    /\ last_op' = "" /\ ret' = ""
    /\ UNCHANGED <<cfg_disk, config, bpy_collections, bpy_libraries, cachedir_path>>
    /\ UNCHANGED <<listVars, svnVars, shotVars, sceneVars, viewerVars>>

\* The collections a scene may hold: linked from the two libraries ("char" is
\* in both) and a local one.  bpy.data.collections lists them in this order.
CollectionPool ==
    <<[name |-> "char", library |-> "", origin |-> "", origin_name |-> "char",
       cachefile |-> "", in_scene |-> TRUE],
      [name |-> "char", library |-> "//../lib/char.blend", origin |-> "/lib/char.blend",
       origin_name |-> "char", cachefile |-> "", in_scene |-> TRUE],
      [name |-> "rig", library |-> "//../lib/char.blend", origin |-> "/lib/char.blend",
       origin_name |-> "rig", cachefile |-> "", in_scene |-> TRUE],
      [name |-> "char", library |-> "//../lib/set.blend", origin |-> "/lib/set.blend",
       origin_name |-> "char", cachefile |-> "", in_scene |-> TRUE],
      [name |-> "set", library |-> "//../lib/set.blend", origin |-> "/lib/set.blend",
       origin_name |-> "set", cachefile |-> "", in_scene |-> TRUE]>>

\* The subsequence of s at the indices in keep.
RECURSIVE Pick(_, _, _)
Pick(s, keep, i) ==
    IF i > Len(s) THEN <<>>
    ELSE (IF i \in keep THEN <<s[i]>> ELSE <<>>) \o Pick(s, keep, i + 1)

\* lib.users_id: an object linked from the library when with_object, then the
\* collections linked from it.
UsersId(colls, filepath, with_object) ==
    (IF with_object THEN <<[identifier |-> "Object", name |-> "char", ptr |-> 0]>>
     ELSE <<>>)
    \o Pick([i \in DOMAIN colls |-> [identifier |-> "Collection",
                                     name |-> colls[i].name, ptr |-> i]],
            {i \in DOMAIN colls : colls[i].library = filepath}, 1)

\* bpy.data.libraries: the libraries something is linked from.
LibrariesOf(colls, with_object) ==
    Pick([n \in 1..2 |->
             LET filepath == <<"//../lib/char.blend", "//../lib/set.blend">>[n]
             IN  [filepath |-> filepath,
                  users_id |-> UsersId(colls, filepath, with_object)]],
         {n \in 1..2 :
             UsersId(colls, <<"//../lib/char.blend", "//../lib/set.blend">>[n],
                     with_object) # <<>>}, 1)

\* A scene with linked collections, an empty cache collections list, a cache
\* directory set in the preferences, no config yet.
InitCacheGen ==
    /\ \E keep \in SUBSET DOMAIN CollectionPool, with_object \in BOOLEAN :
           /\ bpy_collections = Pick(CollectionPool, keep, 1)
           /\ bpy_libraries = LibrariesOf(Pick(CollectionPool, keep, 1), with_object)
    /\ cm_collections = <<>>
    /\ cm_collections_index = 0
    /\ cachedir_path \in {"/cache", "/mnt/render/abc"}
    /\ cfg_disk = [exists |-> FALSE, text |-> <<>>]
    /\ config = NoConfig
    /\ InitListIdle
    /\ InitViewerIdle
    /\ InitSvnIdle
    /\ InitShots
    /\ InitScene
    /\ last_op = "" /\ ret = ""

NextCacheGen ==
    \/ \E now \in {"2021-01-01T00:00:00", "2021-06-30T23:59:59"} : GenConfigFromScene(now)
    \/ \E i \in DOMAIN CollectionPool : AddCacheCollection(i)

SpecCacheGen == InitCacheGen /\ [][NextCacheGen]_vars

\* The names of the collections linked from a library that the cache
\* collections list holds.
CachedFrom(lib) ==
    {bpy_collections[i].name : i \in {j \in get_cache_collections :
                                         bpy_collections[j].library = lib.filepath}}

\* C15: after gen_config_from_scene, the returned config holds the object that
\* was written to the file; its libs map has a key for a library exactly when a
\* collection linked from that library is in the cache collections list, and
\* under the key exactly those collections, each with the cachefile
\* <cachedir>/<name>.abc.
C15_ConfigFromScene ==
    last_op = "gen_config_from_scene"
    => LET libs == config.json_obj.libs
       IN  /\ ret = "CacheConfig"
           /\ cfg_disk = save_as_json(config.json_obj)
           /\ \A l \in DOMAIN libs :
                  \E n \in DOMAIN bpy_libraries :
                      libs[l].key = AbsLibPath(bpy_libraries[n].filepath)
           /\ \A n \in DOMAIN bpy_libraries :
                  LET libfile == AbsLibPath(bpy_libraries[n].filepath)
                  IN  /\ DictHas(libs, libfile) <=> CachedFrom(bpy_libraries[n]) # {}
                      /\ DictHas(libs, libfile) =>
                           LET colldata == libs[DictIndex(libs, libfile)].collections
                           IN  /\ {colldata[c].key : c \in DOMAIN colldata}
                                     = CachedFrom(bpy_libraries[n])
                               /\ \A c \in DOMAIN colldata :
                                      colldata[c].cachefile =
                                          cachedir_path \o "/" \o colldata[c].key \o ".abc"


\* ===========================================================================
\* media_viewer/draw.py: the header toggle operator and its registration
\* ===========================================================================

\* The model adds draw handlers while fewer than MaxHandles exist, and
\* registers while load_post holds the handler fewer than MaxRegistrations times.
MaxHandles == 4

MaxRegistrations == 2

\* self._areas_to_process, also the keys of self._area_draw_handle_dict.
AreasToProcess == <<"IMAGE_EDITOR", "SEQUENCE_EDITOR">>

LoadPostFn == "load_post_start_toggle_header"

\* How often a list holds x.
Count(list, x) == Cardinality({k \in DOMAIN list : list[k] = x})

\* list.append(x): the list grows, the call returns None.
ListAppend(list, x) == [list |-> Append(list, x), ret |-> "None"]

\* list.remove(x): removes the first x; ValueError when the list has no x.
ListRemove(list, x) ==
    IF ~InList(x, list) THEN [err |-> "ValueError", list |-> list]
    ELSE [err |-> "",
          list |-> RemoveAt(list, CHOOSE k \in DOMAIN list :
                                      /\ list[k] = x
                                      /\ \A j \in 1..(k - 1) : list[j] # x)]

\* register(): register_class on a class that is registered already is the
\* host's call, it raises ValueError (already_raises) or registers again.
Register(already_raises) ==
    /\ last_op' = "register"
    /\ Count(load_post, LoadPostFn) < MaxRegistrations
    /\ IF registered /\ already_raises
       THEN /\ ret' = "ValueError"
            /\ UNCHANGED <<load_post, load_post_handler, registered>>
       ELSE \E appended \in {ListAppend(load_post, LoadPostFn)} :
                /\ registered' = TRUE
                /\ load_post' = appended.list
                \* load_post_handler.clear(), then append what append returned
                /\ load_post_handler' = ListAppend(<<>>, appended.ret).list
                /\ ret' = "None"
    /\ UNCHANGED <<draw_handlers, next_handle, toggle_op, draw_header_toggle>>
    /\ UNCHANGED <<listVars, cacheVars, svnVars, shotVars, sceneVars>>

\* unregister(): the loop over load_post_handler.
RECURSIVE RemoveHandlers(_, _)
RemoveHandlers(handlers, list) ==
    IF handlers = <<>> THEN [err |-> "", list |-> list]
    ELSE LET r == ListRemove(list, Head(handlers))
         IN  IF r.err # "" THEN r ELSE RemoveHandlers(Tail(handlers), r.list)

\* unregister() of the enabled addon.
Unregister ==
    /\ last_op' = "unregister"
    /\ registered
    /\ \E r \in {RemoveHandlers(load_post_handler, load_post)} :
           /\ load_post' = r.list
           /\ IF r.err # ""
              THEN /\ ret' = r.err
                   /\ UNCHANGED <<load_post_handler, registered>>
              ELSE /\ load_post_handler' = <<>>
                   /\ registered' = FALSE
                   /\ ret' = "None"
    /\ UNCHANGED <<draw_handlers, next_handle, toggle_op, draw_header_toggle>>
    /\ UNCHANGED <<listVars, cacheVars, svnVars, shotVars, sceneVars>>

\* MV_OT_toggle_header.invoke on a new instance: one draw handler per area
\* type, kept in the instance's lists; the handles are numbered as added.
ToggleHeaderInvoke ==
    /\ last_op' = "invoke"
    /\ registered
    /\ ~toggle_op.running
    /\ next_handle + Len(AreasToProcess) <= MaxHandles
    /\ draw_handlers' = [IMAGE_EDITOR |-> Append(draw_handlers.IMAGE_EDITOR,
                                                 next_handle + 1),
                         SEQUENCE_EDITOR |-> Append(draw_handlers.SEQUENCE_EDITOR,
                                                    next_handle + 2)]
    /\ toggle_op' = [running |-> TRUE,
                     area_draw_handle_dict |->
                         [IMAGE_EDITOR |-> <<next_handle + 1>>,
                          SEQUENCE_EDITOR |-> <<next_handle + 2>>]]
    /\ next_handle' = next_handle + Len(AreasToProcess)
    /\ ret' = "RUNNING_MODAL"
    /\ UNCHANGED <<load_post, load_post_handler, registered, draw_header_toggle>>
    /\ UNCHANGED <<listVars, cacheVars, svnVars, shotVars, sceneVars>>

\* MV_OT_toggle_header.should_cancel
should_cancel == ~draw_header_toggle

\* len(key) of the keys of self._area_draw_handle_dict.
KeyLen(key) == IF key = "IMAGE_EDITOR" THEN 12 ELSE 15

\* modal: "for area_type, draw_handler_list in self._area_draw_handle_dict".
\* Iterating a dict yields its keys; each key, a string, is unpacked into the
\* two names, which raises ValueError unless it has two characters (then
\* self._area_region_dict[area_type] raises KeyError).
RECURSIVE RemoveDrawHandlers(_, _)
RemoveDrawHandlers(keys, st) ==
    IF keys = <<>> THEN st
    ELSE IF KeyLen(Head(keys)) # 2 THEN [st EXCEPT !.err = "ValueError"]
    ELSE [st EXCEPT !.err = "KeyError"]

\* MV_OT_toggle_header.modal for one event, the mouse over a region or not.
\* An exception leaving modal ends the operator.
ToggleHeaderModal(over_region) ==
    /\ last_op' = "modal"
    /\ toggle_op.running
    /\ IF over_region
       THEN /\ ret' = "PASS_THROUGH"
            /\ UNCHANGED <<draw_handlers, toggle_op>>
       ELSE IF should_cancel
       THEN \E st \in {RemoveDrawHandlers(AreasToProcess,
                          [err |-> "", draw_handlers |-> draw_handlers,
                           dict |-> toggle_op.area_draw_handle_dict])} :
                /\ draw_handlers' = st.draw_handlers
                /\ toggle_op' = [running |-> FALSE, area_draw_handle_dict |-> st.dict]
                /\ ret' = IF st.err = "" THEN "CANCELLED" ELSE st.err
       ELSE /\ ret' = "PASS_THROUGH"
            /\ UNCHANGED <<draw_handlers, toggle_op>>
    /\ UNCHANGED <<load_post, load_post_handler, registered, next_handle,
                   draw_header_toggle>>
    /\ UNCHANGED <<listVars, cacheVars, svnVars, shotVars, sceneVars>>

\* The user switches the header toggle of the media viewer.
SetDrawHeaderToggle(value) ==
    /\ draw_header_toggle # value
    /\ draw_header_toggle' = value
    /\ last_op' = "" /\ ret' = ""
    /\ UNCHANGED <<load_post, load_post_handler, registered, draw_handlers,
                   next_handle, toggle_op>>
    /\ UNCHANGED <<listVars, cacheVars, svnVars, shotVars, sceneVars>>

\* Blender before the media viewer is enabled; load_post may hold the handler
\* of another addon.
InitViewer ==
    /\ load_post \in {<<>>, <<"other_load_post">>}
    /\ load_post_handler = <<>>
    /\ registered = FALSE
    /\ draw_handlers = [IMAGE_EDITOR |-> <<>>, SEQUENCE_EDITOR |-> <<>>]
    /\ next_handle = 0
    /\ toggle_op = NoToggleOp
    /\ draw_header_toggle \in BOOLEAN
    /\ InitListIdle
    /\ InitCacheIdle
    /\ InitSvnIdle
    /\ InitShots
    /\ InitScene
    /\ last_op = "" /\ ret = ""

NextViewer ==
    \/ \E already_raises \in BOOLEAN : Register(already_raises)
    \/ Unregister
    \/ ToggleHeaderInvoke
    \/ \E over_region \in BOOLEAN : ToggleHeaderModal(over_region)
    \/ \E value \in BOOLEAN : SetDrawHeaderToggle(value)

SpecViewer == InitViewer /\ [][NextViewer]_vars

\* C14: a modal event at which draw_header_toggle is False removes every draw
\* handler that invoke added from its space type, leaves the operator's handler
\* lists empty and returns CANCELLED.
C14_CancelRemovesHandlers ==
    [][(/\ last_op' = "modal"
        /\ ~draw_header_toggle
        /\ \E over_region \in BOOLEAN : ToggleHeaderModal(over_region))
       => /\ ret' = "CANCELLED"
          /\ \A area_type \in {"IMAGE_EDITOR", "SEQUENCE_EDITOR"} :
                 /\ toggle_op'.area_draw_handle_dict[area_type] = <<>>
                 /\ \A k \in DOMAIN toggle_op.area_draw_handle_dict[area_type] :
                        ~InList(toggle_op.area_draw_handle_dict[area_type][k],
                                draw_handlers'[area_type])]_vars

\* C16: unregister completes without error and leaves load_post without
\* load_post_start_toggle_header and otherwise as it was, and after a register
\* the handler is in load_post exactly once.
C16_RegisterUnregister ==
    [][/\ (last_op' = "unregister" /\ Unregister)
          => /\ ret' = "None"
             /\ ~InList(LoadPostFn, load_post')
             /\ load_post' = SelectSeq(load_post, LAMBDA h : h # LoadPostFn)
       /\ (last_op' = "register" /\ \E already_raises \in BOOLEAN :
                                        Register(already_raises))
          => Count(load_post', LoadPostFn) = 1]_vars

=============================================================================
